---- MODULE Spec2Model ----
(***************************************************************************)
(* Temperature dashboard: the /lab/api endpoint (POST insert, GET list)    *)
(* over the temperature_readings table, and the Svelte page that fetches,  *)
(* plots and periodically refreshes the readings.                          *)
(*                                                                         *)
(* Conventions.  JavaScript numbers are modelled by records                *)
(* [nan, v] (NaN or the integer v).  JavaScript strings that are parsed    *)
(* are sequences of one-character strings over the alphabet                *)
(* {" ", "+", "-", "0".."9", "C"}: on this alphabet (no ".", "e", "x")     *)
(* parseFloat and parseInt both read an optional sign and the longest run  *)
(* of digits.  Timestamps are the strings "t1" < "t2" < "t3" (three        *)
(* ISO-8601 instants, in collation and chronological order), "t2x" (a      *)
(* text that collates between "t2" and "t3" and that no Date can parse,    *)
(* such as an instant with hour 25) and the sentinels "undefined" (field   *)
(* absent from the body) and "NULL" (SQL NULL).  Temperatures shown by     *)
(* the page are in tenths of a degree, pixel coordinates are exact         *)
(* fractions [num, den], and Math.random is one of a few fixed streams.    *)
(***************************************************************************)
EXTENDS Integers, Sequences, FiniteSets, TLC

VARIABLES
    \* the endpoint and its table
    table,            \* temperature_readings, rows in rowid order
    seq,              \* sqlite_sequence: the last AUTOINCREMENT id handed out
    inserts,          \* INSERT statements executed so far (bounds the run)
    req,              \* the request the endpoint handled last
    resp,             \* the response it produced
    \* the page
    temperatureData,  \* $state: the display sequence
    isLoading,        \* $state
    isAutoRefresh,    \* $state
    refreshInterval,  \* $state, seconds
    lastFetchTime,    \* $state: Null or the time of the last assignment
    refreshTimer,     \* the handle kept of the last setInterval, 0 for null
    hoveredPoint,     \* $state
    phase,            \* "created", "mounted" or "destroyed"
    effectDirty,      \* the $effect is scheduled to run again
    timers,           \* the browser's armed interval timers
    inflight,         \* fetches started and not yet resumed
    lastResult,       \* what the refresh completed last did and saw
    mouse,            \* the last pointer event on the graph
    now               \* the clock

serverVars == <<table, seq, inserts, req, resp>>

pageVars ==
    <<temperatureData, isLoading, isAutoRefresh, refreshInterval, lastFetchTime,
      refreshTimer, hoveredPoint, phase, effectDirty, timers, inflight,
      lastResult, mouse, now>>

vars == <<serverVars, pageVars>>

----------------------------------------------------------------------------
(* Bounds *)

MaxInserts == 2
PrefillRows == 100

----------------------------------------------------------------------------
(* JavaScript numbers and the two parsers *)

NaN == [nan |-> TRUE, v |-> 0]

Num(n) == [nan |-> FALSE, v |-> n]

Digits == {"0", "1", "2", "3", "4", "5", "6", "7", "8", "9"}

DigitVal(c) ==
    CASE c = "0" -> 0 [] c = "1" -> 1 [] c = "2" -> 2 [] c = "3" -> 3
      [] c = "4" -> 4 [] c = "5" -> 5 [] c = "6" -> 6 [] c = "7" -> 7
      [] c = "8" -> 8 [] c = "9" -> 9

RECURSIVE SkipSpaces(_)
SkipSpaces(s) ==
    IF s # <<>> /\ Head(s) = " " THEN SkipSpaces(Tail(s)) ELSE s

RECURSIVE DigitRun(_)
DigitRun(s) ==
    IF s # <<>> /\ Head(s) \in Digits
    THEN <<Head(s)>> \o DigitRun(Tail(s))
    ELSE <<>>

RECURSIVE DigitsValue(_, _)
DigitsValue(s, acc) ==
    IF s = <<>> THEN acc
    ELSE DigitsValue(Tail(s), 10 * acc + DigitVal(Head(s)))

\* The numeric prefix of a string: leading blanks skipped, an optional sign,
\* the longest run of digits; NaN when no digit follows.  Whatever comes
\* after the digits is ignored.
StrNumericPrefix(s) ==
    LET t == SkipSpaces(s)
        signed == t # <<>> /\ Head(t) \in {"-", "+"}
        neg == t # <<>> /\ Head(t) = "-"
        d == DigitRun(IF signed THEN Tail(t) ELSE t)
    IN  IF d = <<>> THEN NaN
        ELSE Num(IF neg THEN 0 - DigitsValue(d, 0) ELSE DigitsValue(d, 0))

\* JSON values a body can carry in its temperature field.
JAbsent == [k |-> "absent", n |-> 0, s |-> <<>>]
JNull == [k |-> "null", n |-> 0, s |-> <<>>]
JObject == [k |-> "object", n |-> 0, s |-> <<>>]
JNum(n) == [k |-> "number", n |-> n, s |-> <<>>]
JStr(s) == [k |-> "string", n |-> 0, s |-> s]
JArr1(n) == [k |-> "array", n |-> n, s |-> <<>>]

\* parseFloat(x): x is first converted to a string.  String(n) parses back
\* to n; String(null) = "null" and String({}) = "[object Object]" have no
\* numeric prefix; String([n]) = String(n).
parseFloat(x) ==
    CASE x.k = "number" -> Num(x.n)
      [] x.k = "array" -> Num(x.n)
      [] x.k = "string" -> StrNumericPrefix(x.s)
      [] OTHER -> NaN

parseInt(s) == StrNumericPrefix(s)

\* Math.min(a, b): NaN if either argument is NaN.
MathMin(a, b) ==
    IF a.nan \/ b.nan THEN NaN ELSE IF a.v < b.v THEN a ELSE b

----------------------------------------------------------------------------
(* Requests *)

TemperatureInputs ==
    { JAbsent, JNull, JObject, JArr1(100),
      JNum(0 - 51), JNum(0 - 50), JNum(100), JNum(101),
      JStr(<<"1", "0", "0">>), JStr(<<"1", "0", "0", "C">>), JStr(<<"C">>),
      JStr(<<"1", "5", "0">>) }

\* device_id, timestamp, metadata as the body carries them.
ExtraInputs ==
    { [device_id |-> "undefined", timestamp |-> "undefined", metadata |-> "undefined"],
      [device_id |-> "pico_01", timestamp |-> "t1", metadata |-> "undefined"],
      [device_id |-> "pico_01", timestamp |-> "t2", metadata |-> "undefined"],
      [device_id |-> "undefined", timestamp |-> "t3", metadata |-> "object"],
      [device_id |-> "pico_01", timestamp |-> "t2x", metadata |-> "undefined"] }

NoExtras == [device_id |-> "undefined", timestamp |-> "undefined", metadata |-> "undefined"]

\* A request body: text that is not JSON, the JSON values null and [], or a
\* JSON object; shadow says the object has a key of its own named
\* "hasOwnProperty".
ObjectBody(t, e, shadow) ==
    [shape |-> "object", shadow |-> shadow, temperature |-> t,
     device_id |-> e.device_id, timestamp |-> e.timestamp, metadata |-> e.metadata]

OtherBody(shape) ==
    [shape |-> shape, shadow |-> FALSE, temperature |-> JAbsent,
     device_id |-> "undefined", timestamp |-> "undefined", metadata |-> "undefined"]

Bodies ==
    { ObjectBody(t, e, FALSE) : t \in TemperatureInputs, e \in ExtraInputs }
    \cup { ObjectBody(t, NoExtras, TRUE) : t \in {JNum(100), JNum(101), JAbsent} }
    \cup { OtherBody(s) : s \in {"malformed", "null", "array"} }

\* A query parameter: absent, or its text.
Absent == [present |-> FALSE, s |-> <<>>]
Param(s) == [present |-> TRUE, s |-> s]

LimitInputs ==
    { Absent, Param(<<>>), Param(<<"0">>), Param(<<"1">>), Param(<<"2">>),
      Param(<<"6", "0">>), Param(<<"-", "1">>), Param(<<"1", "0", "0", "1">>),
      Param(<<"C">>) }

OffsetInputs ==
    { Absent, Param(<<"0">>), Param(<<"1">>), Param(<<"-", "1">>), Param(<<"C">>) }

LocationInputs == { Absent, Param(<<"C">>) }

NoBody == OtherBody("none")

PostRequest(body, db) ==
    [method |-> "POST", db |-> db, body |-> body,
     limit |-> Absent, offset |-> Absent, location |-> Absent]

GetRequest(limit, offset, location, db) ==
    [method |-> "GET", db |-> db, body |-> NoBody,
     limit |-> limit, offset |-> offset, location |-> location]

NoRequest ==
    [method |-> "none", db |-> FALSE, body |-> NoBody,
     limit |-> Absent, offset |-> Absent, location |-> Absent]

----------------------------------------------------------------------------
(* Responses *)

NoMeta == [total |-> 0, limit |-> 0, offset |-> 0, hasMore |-> FALSE]

ErrorResponse(status) ==
    [status |-> status, ok |-> FALSE, id |-> 0, data |-> <<>>,
     hasMeta |-> FALSE, meta |-> NoMeta]

SavedResponse(id) ==
    [status |-> 200, ok |-> TRUE, id |-> id, data |-> <<>>,
     hasMeta |-> FALSE, meta |-> NoMeta]

ListResponse(results, total, limit, offset) ==
    [status |-> 200, ok |-> TRUE, id |-> 0, data |-> results,
     hasMeta |-> TRUE,
     meta |-> [total |-> total, limit |-> limit, offset |-> offset,
               hasMore |-> offset + limit < total]]

NoResponse ==
    [status |-> 0, ok |-> FALSE, id |-> 0, data |-> <<>>,
     hasMeta |-> FALSE, meta |-> NoMeta]

----------------------------------------------------------------------------
(* The table *)

\* A bound parameter as the engine stores it.  An absent body field reaches
\* bind() as undefined; an engine that accepts it stores NULL (the column
\* is named in the INSERT, so its DEFAULT does not apply).
Stored(x) == IF x = "undefined" THEN "NULL" ELSE x

Row(id, temperature, body) ==
    [id |-> id, temperature |-> temperature,
     device_id |-> Stored(body.device_id),
     timestamp |-> Stored(body.timestamp),
     metadata |-> IF body.metadata # "undefined" THEN "json" ELSE "NULL"]

\* What binding undefined does is the engine's choice: it is stored as NULL
\* or the statement is refused with a type error.
BindOutcomes(body) ==
    IF body.device_id = "undefined" \/ body.timestamp = "undefined"
    THEN {"null", "throw"}
    ELSE {"null"}

PrefillRow(i) ==
    [id |-> i, temperature |-> 100, device_id |-> "pico_01",
     timestamp |-> "t2", metadata |-> "NULL"]

\* A table that already holds PrefillRows readings of one instant.
PrefilledTable == [i \in 1..PrefillRows |-> PrefillRow(i)]

----------------------------------------------------------------------------
(* POST /lab/api *)

RangeLow == 0 - 50
RangeHigh == 100

\* request.json() rejects text that is not JSON.
JsonRejects(body) == body.shape = "malformed"

\* body.hasOwnProperty(...) is a property lookup followed by a call: on null
\* the lookup throws, and on an object whose own "hasOwnProperty" key holds
\* a JSON value the call throws.
HasOwnPropertyThrows(body) == body.shape = "null" \/ body.shadow

HasTemperature(body) == body.shape = "object" /\ body.temperature # JAbsent

TemperatureRejected(t) == t.nan \/ t.v < RangeLow \/ t.v > RangeHigh

\* The handler's outcome: its response and whether the INSERT ran.
PostOutcome(body, db, bind, lastId) ==
    LET temperature == parseFloat(body.temperature)
        failed(status) == [resp |-> ErrorResponse(status), insert |-> FALSE, temperature |-> 0]
    IN  IF JsonRejects(body) \/ HasOwnPropertyThrows(body) THEN failed(500)
        ELSE IF ~HasTemperature(body) THEN failed(400)
        ELSE IF TemperatureRejected(temperature) THEN failed(400)
        ELSE IF ~db THEN failed(500)
        ELSE IF bind = "throw" THEN failed(500)
        ELSE [resp |-> SavedResponse(lastId + 1), insert |-> TRUE,
              temperature |-> temperature.v]

POST(body, db, bind) ==
    /\ req = NoRequest
    /\ inserts < MaxInserts
    /\ req' = PostRequest(body, db)
    /\ LET out == PostOutcome(body, db, bind, seq) IN
        /\ resp' = out.resp
        /\ IF out.insert
           THEN /\ table' = Append(table, Row(seq + 1, out.temperature, body))
                /\ seq' = seq + 1
                /\ inserts' = inserts + 1
           ELSE UNCHANGED <<table, seq, inserts>>

----------------------------------------------------------------------------
(* GET /lab/api *)

DefaultLimitText == <<"1", "0", "0">>
DefaultOffsetText == <<"0">>
MaxLimit == 1000

\* searchParams.get(name) || fallback: null and "" are falsy.
OrDefault(param, fallback) ==
    IF param.present /\ param.s # <<>> THEN param.s ELSE fallback

EffectiveLimit(limit) ==
    MathMin(parseInt(OrDefault(limit, DefaultLimitText)), Num(MaxLimit))

EffectiveOffset(offset) == parseInt(OrDefault(offset, DefaultOffsetText))

\* ORDER BY timestamp: NULL sorts before every value, and text by collation.
TsRank(ts) ==
    CASE ts = "NULL" -> 0 [] ts = "t1" -> 1 [] ts = "t2" -> 2
      [] ts = "t2x" -> 3 [] ts = "t3" -> 4

Reverse(s) == [i \in 1..Len(s) |-> s[Len(s) + 1 - i]]

\* The order in which the engine yields rows of equal timestamp: SQL leaves
\* it open; a sorter keeps rowid order, a backward index scan reverses it.
TieOrders == {"rowid_asc", "rowid_desc"}

RowsRanked(rows, k, tie) ==
    LET same == SelectSeq(rows, LAMBDA r : TsRank(r.timestamp) = k)
    IN  IF tie = "rowid_asc" THEN same ELSE Reverse(same)

RECURSIVE OrderedFrom(_, _, _)
OrderedFrom(rows, k, tie) ==
    IF k < 0 THEN <<>>
    ELSE RowsRanked(rows, k, tie) \o OrderedFrom(rows, k - 1, tie)

OrderByTimestampDesc(rows, tie) == OrderedFrom(rows, 4, tie)

\* The query with its LIMIT lost: every row from the offset on.
WindowNoLimit(rows, limit, offset) ==
    SubSeq(rows, (IF offset < 0 THEN 0 ELSE offset) + 1, Len(rows))

\* LIMIT ? OFFSET ?: a negative LIMIT is no limit, a negative OFFSET is 0.
Window(rows, limit, offset) ==
    LET skip == IF offset < 0 THEN 0 ELSE offset
        rest == SubSeq(rows, skip + 1, Len(rows))
    IN  IF limit < 0 \/ limit >= Len(rest) THEN rest
        ELSE SubSeq(rest, 1, limit)

\* SELECT COUNT(*) as total; countResults[0]?.total || 0
CountAll(rows) == Len(rows)

\* The table has no location column: a query that names it cannot be
\* prepared.  NaN is no LIMIT or OFFSET the engine accepts.
QueryFails(location, lim, off) ==
    (location.present /\ location.s # <<>>) \/ lim.nan \/ off.nan

GetResponse(rows, limit, offset, location, db, tie) ==
    LET lim == EffectiveLimit(limit)
        off == EffectiveOffset(offset)
    IN  IF ~db THEN ErrorResponse(500)
        ELSE IF QueryFails(location, lim, off) THEN ErrorResponse(500)
        ELSE ListResponse(Window(OrderByTimestampDesc(rows, tie), lim.v, off.v),
                          CountAll(rows), lim.v, off.v)

GET(limit, offset, location, db, tie) ==
    /\ req = NoRequest
    /\ req' = GetRequest(limit, offset, location, db)
    /\ resp' = GetResponse(table, limit, offset, location, db, tie)
    /\ UNCHANGED <<table, seq, inserts>>

\* The response is sent and the invocation ends; nothing of it is kept.
Complete ==
    /\ req # NoRequest
    /\ req' = NoRequest
    /\ resp' = NoResponse
    /\ UNCHANGED <<table, seq, inserts, pageVars>>

----------------------------------------------------------------------------
(* The page: fetchTemperatureData and generateTemperatureData *)

Null == 0

\* One element of the display sequence.  Generated points have no id,
\* device_id or dbTimestamp.
Point(time, temperature, id, device_id, dbTimestamp) ==
    [time |-> time, temperature |-> temperature, id |-> id,
     device_id |-> device_id, dbTimestamp |-> dbTimestamp]

\* new Date(timestamp).getTime(): JSON null is the epoch, the three instants
\* are their epoch values, the unparsable text is NaN.
DateGetTime(ts) ==
    CASE ts = "NULL" -> Num(0) [] ts = "t1" -> Num(1) [] ts = "t2" -> Num(2)
      [] ts = "t3" -> Num(3) [] ts = "t2x" -> NaN

\* The comparator handed to sort.
compareTimestamps(a, b) ==
    LET x == DateGetTime(a.timestamp)
        y == DateGetTime(b.timestamp)
    IN  IF x.nan \/ y.nan THEN NaN ELSE Num(x.v - y.v)

\* Array.prototype.sort reads a NaN from the comparator as +0.
SortCompare(a, b) ==
    LET v == compareTimestamps(a, b) IN IF v.nan THEN 0 ELSE v.v

\* The comparator is a consistent one over the readings of s: "equal" and
\* "less" are transitive, and "equal" exchanges with "less".  It reads the
\* timestamps only, so one reading of each timestamp is compared.
ConsistentComparator(s) ==
    LET reps == {[timestamp |-> s[i].timestamp] : i \in 1..Len(s)}
    IN  \A a \in reps, b \in reps, c \in reps :
            /\ SortCompare(a, b) = 0 /\ SortCompare(b, c) = 0
                => SortCompare(a, c) = 0
            /\ SortCompare(a, b) < 0 /\ SortCompare(b, c) < 0
                => SortCompare(a, c) < 0
            /\ SortCompare(a, b) = 0 /\ SortCompare(b, c) < 0
                => SortCompare(a, c) < 0
            /\ SortCompare(a, b) < 0 /\ SortCompare(b, c) = 0
                => SortCompare(a, c) < 0

\* The readings of s that compare equal to x, in the order of s.
EqualTo(s, x) == SelectSeq(s, LAMBDA r : SortCompare(r, x) = 0)

\* The readings of s that compare less than every reading in done.
Before(s, x) == SelectSeq(s, LAMBDA r : SortCompare(r, x) < 0)

After(s, x) == SelectSeq(s, LAMBDA r : SortCompare(r, x) > 0)

\* The stable ascending order of s under a consistent comparator: the
\* readings less than the first, those equal to it, those greater, each
\* part in the order of s and the outer two sorted in turn.
RECURSIVE StableSort(_)
StableSort(s) ==
    IF s = <<>> THEN <<>>
    ELSE StableSort(Before(s, s[1])) \o EqualTo(s, s[1])
            \o StableSort(After(s, s[1]))

Orders(n) ==
    {p \in [1..n -> 1..n] : \A i \in 1..n, j \in 1..n : p[i] = p[j] => i = j}

\* What sort can leave in the array: the stable ascending order under a
\* consistent comparator, and otherwise an order the engine chooses.
SortOutcomes(s) ==
    IF ConsistentComparator(s) THEN {StableSort(s)}
    ELSE {[i \in 1..Len(s) |-> s[p[i]]] : p \in Orders(Len(s))}

\* The map over the sorted readings; the stored degrees become tenths.
DisplayOf(sorted) ==
    [i \in 1..Len(sorted) |->
        Point(i - 1, sorted[i].temperature * 10, sorted[i].id,
              sorted[i].device_id, sorted[i].timestamp)]

\* generateTemperatureData, in units of 1/10000 of a degree.
PointCount == 60
BaseTemp == 350000
ClampLow == 200000
ClampHigh == 500000

\* round(80000 * sin(i / 10)) for i = 0..59
SinTable ==
    <<0, 7987, 15894, 23642, 31153, 38354, 45171, 51537, 57388, 62666,
      67318, 71297, 74563, 77085, 78836, 79800, 79966, 79333, 77908, 75704,
      72744, 69057, 64680, 59656, 54037, 47878, 41240, 34190, 26799, 19140,
      11290, 3326, 0 - 4670, 0 - 12620, 0 - 20443, 0 - 28063, 0 - 35402,
      0 - 42387, 0 - 48949, 0 - 55021, 0 - 60544, 0 - 65462, 0 - 69726,
      0 - 73293, 0 - 76128, 0 - 78202, 0 - 79495, 0 - 79994, 0 - 79693,
      0 - 78596, 0 - 76714, 0 - 74065, 0 - 70676, 0 - 66581, 0 - 61821,
      0 - 56443, 0 - 50501, 0 - 44055, 0 - 37168, 0 - 29910>>

\* Math.random in thousandths, by stream and by call: the least value, the
\* middle, the greatest, and the greatest jitter with the least drift.
RandomStreams == {"low", "mid", "high", "zigzag"}

MathRandom(rnd, call) ==
    CASE rnd = "low" -> 0
      [] rnd = "mid" -> 500
      [] rnd = "high" -> 999
      [] rnd = "zigzag" -> IF call % 2 = 0 THEN 999 ELSE 0

\* The drift added to baseTemp at the end of iteration i.
Drift(rnd, i) == (MathRandom(rnd, 2 * i + 1) - 500) * 5

\* The drifts of iterations lo..hi, summed by halves.
RECURSIVE DriftSum(_, _, _)
DriftSum(rnd, lo, hi) ==
    IF lo > hi THEN 0
    ELSE IF lo = hi THEN Drift(rnd, lo)
    ELSE LET mid == (lo + hi) \div 2
         IN  DriftSum(rnd, lo, mid) + DriftSum(rnd, mid + 1, hi)

\* baseTemp at the start of iteration i.
BaseAt(rnd, i) == BaseTemp + DriftSum(rnd, 0, i - 1)

Variation(rnd, i) == SinTable[i + 1] + (MathRandom(rnd, 2 * i) - 500) * 40

Max(a, b) == IF a >= b THEN a ELSE b
Min(a, b) == IF a <= b THEN a ELSE b

Unclamped(lo, hi, x) == x

Clamp(lo, hi, x) == Max(lo, Min(hi, x))

\* Math.round(temp * 10) / 10, as a count of tenths
RoundTenths(temp) == (temp + 500) \div 1000

generateTemperatureData(rnd) ==
    [k \in 1..PointCount |->
        Point(k - 1,
              RoundTenths(Clamp(ClampLow, ClampHigh,
                                BaseAt(rnd, k - 1) + Variation(rnd, k - 1))),
              0, "undefined", "undefined")]

\* What the fetch of /lab/api?limit=60 settles with.
FetchLimit == <<"6", "0">>

NoReply == [kind |-> "none", body |-> NoResponse]

FetchReplies(rows) ==
    {[kind |-> "network_error", body |-> NoResponse],
     [kind |-> "bad_json", body |-> NoResponse]}
    \cup {[kind |-> "json",
           body |-> GetResponse(rows, Param(FetchLimit), Absent, Absent,
                                db, tie)] :
            db \in BOOLEAN, tie \in TieOrders}

FetchFailed(reply) == reply.kind # "json" \/ ~reply.body.ok

\* The sequences fetchTemperatureData can resolve with.
fetchTemperatureData(reply) ==
    IF FetchFailed(reply)
    THEN {generateTemperatureData(rnd) : rnd \in RandomStreams}
    ELSE {DisplayOf(sorted) : sorted \in SortOutcomes(reply.body.data)}

----------------------------------------------------------------------------
(* The page: the refresh scheduler *)

MaxInflight == 2
MaxTimerId == 2
MaxClock == 2

IntervalOptions == {5, 10, 30, 60, 300}

\* A handle the browser may give a new timer: any positive integer that no
\* armed timer has.
FreeIds(ts) == (1..MaxTimerId) \ {t.id : t \in ts}

clearIntervalKeeps(ts, id) == ts

clearInterval(ts, id) == {t \in ts : t.id # id}

\* The first half of setupAutoRefresh, and all of onDestroy.
ClearRefreshTimer == 
    IF refreshTimer # Null THEN clearInterval(timers, refreshTimer) ELSE timers

\* setupAutoRefresh, reading the flag and the interval it is given.
setupAutoRefresh(flag, interval) ==
    IF flag /\ interval > 0
    THEN \E id \in FreeIds(ClearRefreshTimer) :
            /\ timers' = ClearRefreshTimer
                            \cup {[id |-> id, period |-> interval * 1000]}
            /\ refreshTimer' = id
    ELSE /\ timers' = ClearRefreshTimer
         /\ UNCHANGED refreshTimer

Pending(origin) == [origin |-> origin, stage |-> "sent", reply |-> NoReply]

\* Of the refresh completed last: who awaited it, whether it fetched at
\* all, whether the fetch had failed, the flag it found on resuming, and how
\* many points the display held until then.
NoResult ==
    [origin |-> "none", fetched |-> FALSE, failed |-> FALSE,
     enabled |-> FALSE, replaced |-> 0]

Without(s, i) == SubSeq(s, 1, i - 1) \o SubSeq(s, i + 1, Len(s))

\* onMount sends the first fetch and stops at its await; then the $effect
\* runs for the first time.
Mount ==
    /\ phase = "created"
    /\ phase' = "mounted"
    /\ inflight' = Append(inflight, Pending("mount"))
    /\ setupAutoRefresh(isAutoRefresh, refreshInterval)
    /\ UNCHANGED <<serverVars, temperatureData, isLoading, isAutoRefresh,
                   refreshInterval, lastFetchTime, hoveredPoint, effectDirty,
                   lastResult, mouse, now>>

\* The request of fetch i is answered by the endpoint, or fails on the way.
ServerReply(i, reply) ==
    /\ i \in 1..Len(inflight)
    /\ inflight[i].stage = "sent"
    /\ reply \in FetchReplies(table)
    /\ inflight' = [inflight EXCEPT ![i].stage = "replied", ![i].reply = reply]
    /\ UNCHANGED <<serverVars, temperatureData, isLoading, isAutoRefresh,
                   refreshInterval, lastFetchTime, refreshTimer, hoveredPoint,
                   phase, effectDirty, timers, lastResult, mouse, now>>

ResumeIfEnabled(flag) == flag

ResumeIfAlone(flag) == Len(inflight) = 1

\* The caller resumes whatever the flag is by now.
ResumeAlways(flag) == TRUE

\* fetchTemperatureData of fetch i resolves and its caller resumes after the
\* await: onMount (135-138), refreshData (115-116) called by the timer, or
\* refreshData called by Refresh Now, which then clears isLoading (400).
Resolve(i) ==
    /\ i \in 1..Len(inflight)
    /\ inflight[i].stage = "replied"
    /\ ~effectDirty
    /\ inflight' = Without(inflight, i)
    /\ lastResult' = [origin |-> inflight[i].origin,
                      fetched |-> TRUE,
                      failed |-> FetchFailed(inflight[i].reply),
                      enabled |-> isAutoRefresh,
                      replaced |-> Len(temperatureData)]
    /\ IF ResumeAlways(isAutoRefresh)
       THEN /\ \E data \in fetchTemperatureData(inflight[i].reply) :
                temperatureData' = data
            /\ lastFetchTime' = now
       ELSE UNCHANGED <<temperatureData, lastFetchTime>>
    /\ isLoading' = IF inflight[i].origin \in {"mount", "manual"} THEN FALSE
                    ELSE isLoading
    /\ IF inflight[i].origin = "mount"
       THEN setupAutoRefresh(isAutoRefresh, refreshInterval)
       ELSE UNCHANGED <<refreshTimer, timers>>
    /\ UNCHANGED <<serverVars, isAutoRefresh, refreshInterval, hoveredPoint,
                   phase, effectDirty, mouse, now>>

\* The checkbox: bind:checked writes the flag, then onchange runs
\* setupAutoRefresh, and the $effect that read the flag is scheduled.
Toggle ==
    /\ phase = "mounted"
    /\ ~effectDirty
    /\ isAutoRefresh' = ~isAutoRefresh
    /\ setupAutoRefresh(~isAutoRefresh, refreshInterval)
    /\ effectDirty' = TRUE
    /\ UNCHANGED <<serverVars, temperatureData, isLoading, refreshInterval,
                   lastFetchTime, hoveredPoint, phase, inflight, lastResult,
                   mouse, now>>

\* The select, rendered only while the flag is set: bind:value writes the
\* interval, then onchange runs setupAutoRefresh, and the $effect is
\* scheduled.
SelectInterval(v) ==
    /\ phase = "mounted"
    /\ ~effectDirty
    /\ isAutoRefresh
    /\ v \in IntervalOptions \ {refreshInterval}
    /\ refreshInterval' = v
    /\ setupAutoRefresh(isAutoRefresh, v)
    /\ effectDirty' = TRUE
    /\ UNCHANGED <<serverVars, temperatureData, isLoading, isAutoRefresh,
                   lastFetchTime, hoveredPoint, phase, inflight, lastResult,
                   mouse, now>>

\* The scheduled $effect runs, before any other event is handled.
EffectRun ==
    /\ effectDirty
    /\ effectDirty' = FALSE
    /\ setupAutoRefresh(isAutoRefresh, refreshInterval)
    /\ UNCHANGED <<serverVars, temperatureData, isLoading, isAutoRefresh,
                   refreshInterval, lastFetchTime, hoveredPoint, phase,
                   inflight, lastResult, mouse, now>>

StartRefreshUngated(origin) == inflight' = Append(inflight, Pending(origin))

\* refreshData up to its await: nothing when the flag is clear.
StartRefresh(origin) ==
    IF isAutoRefresh THEN inflight' = Append(inflight, Pending(origin))
    ELSE UNCHANGED inflight

\* An armed timer calls refreshData.
TimerFire(t) ==
    /\ t \in timers
    /\ ~effectDirty
    /\ Len(inflight) < MaxInflight
    /\ StartRefresh("timer")
    /\ UNCHANGED <<serverVars, temperatureData, isLoading, isAutoRefresh,
                   refreshInterval, lastFetchTime, refreshTimer, hoveredPoint,
                   phase, effectDirty, timers, lastResult, mouse, now>>

\* Refresh Now (397-401): isLoading is set and refreshData called. With the
\* flag set the handler stops at the await of the fetch; with the flag clear
\* refreshData has returned, the handler resumes before any other event and
\* clears isLoading.
ManualRefresh ==
    /\ phase = "mounted"
    /\ ~effectDirty
    /\ isAutoRefresh => Len(inflight) < MaxInflight
    /\ StartRefresh("manual")
    /\ isLoading' = isAutoRefresh
    /\ lastResult' = IF isAutoRefresh THEN lastResult
                     ELSE [origin |-> "manual", fetched |-> FALSE,
                           failed |-> FALSE, enabled |-> FALSE,
                           replaced |-> Len(temperatureData)]
    /\ UNCHANGED <<serverVars, temperatureData, isAutoRefresh, refreshInterval,
                   lastFetchTime, refreshTimer, hoveredPoint, phase,
                   effectDirty, timers, mouse, now>>

UseDemoData(rnd) ==
    /\ phase = "mounted"
    /\ ~effectDirty
    /\ temperatureData' = generateTemperatureData(rnd)
    /\ UNCHANGED <<serverVars, isLoading, isAutoRefresh, refreshInterval,
                   lastFetchTime, refreshTimer, hoveredPoint, phase,
                   effectDirty, timers, inflight, lastResult, mouse, now>>

\* The page is left: onDestroy.
Destroy ==
    /\ phase = "mounted"
    /\ ~effectDirty
    /\ phase' = "destroyed"
    /\ timers' = ClearRefreshTimer
    /\ UNCHANGED <<serverVars, temperatureData, isLoading, isAutoRefresh,
                   refreshInterval, lastFetchTime, refreshTimer, hoveredPoint,
                   effectDirty, inflight, lastResult, mouse, now>>

Tick ==
    /\ now < MaxClock
    /\ now' = now + 1
    /\ UNCHANGED <<serverVars, temperatureData, isLoading, isAutoRefresh,
                   refreshInterval, lastFetchTime, refreshTimer, hoveredPoint,
                   phase, effectDirty, timers, inflight, lastResult, mouse>>

----------------------------------------------------------------------------
(* The page: the graph and the pointer *)

width == 800
height == 400
padding == [top |-> 20, right |-> 40, bottom |-> 60, left |-> 60]
graphWidth == width - padding.left - padding.right
graphHeight == height - padding.top - padding.bottom

HoverRadius == 20

\* Exact fractions with a positive denominator.
Frac(num, den) == [num |-> num, den |-> den]

Abs(n) == IF n < 0 THEN 0 - n ELSE n

\* |a - n| for a fraction a and an integer n
Distance(a, n) == Frac(Abs(a.num - n * a.den), a.den)

LessOrEqual(a, b) == a.num * b.den <= b.num * a.den

Less(a, b) == a.num * b.den < b.num * a.den

xScaleUpright(data, time) ==
    IF Len(data) = 0 THEN Frac(0, 1)
    ELSE LET maxTime == Max(Len(data) - 1, 59)
         IN  Frac(time * graphWidth, maxTime)

xScale(data, time) ==
    IF Len(data) = 0 THEN Frac(0, 1)
    ELSE LET maxTime == Max(Len(data) - 1, 59)
         IN  Frac(graphWidth * maxTime - time * graphWidth, maxTime)

\* temp in tenths of a degree
yScale(temp) == Frac(graphHeight * 300 - (temp - 200) * graphHeight, 300)

NoPoint == Point(0, 0, 0, "undefined", "undefined")

NoHover == [shown |-> FALSE, point |-> NoPoint, x |-> Frac(0, 1),
            y |-> Frac(0, 1)]

Hover(data, point) ==
    [shown |-> TRUE, point |-> point, x |-> xScale(data, point.time),
     y |-> yScale(point.temperature)]

\* closestDistance is Infinity until a point is taken.
NoneYet == [found |-> FALSE, index |-> 0, distance |-> Frac(0, 1)]

\* The body of the forEach, for point k.
Visit(data, mouseX, k, closest) ==
    LET distance == Distance(xScale(data, data[k].time), mouseX)
    IN  IF ~closest.found \/ Less(distance, closest.distance)
        THEN [found |-> TRUE, index |-> k, distance |-> distance]
        ELSE closest

\* The forEach over points lo..hi in order, entered with the closest so
\* far: the first half of the range, then the second.  Once a point lies
\* under the pointer no later point is nearer, and the rest changes nothing.
RECURSIVE ClosestOver(_, _, _, _, _)
ClosestOver(data, mouseX, lo, hi, closest) ==
    IF lo > hi THEN closest
    ELSE IF lo = hi THEN Visit(data, mouseX, lo, closest)
    ELSE LET mid == (lo + hi) \div 2
             first == ClosestOver(data, mouseX, lo, mid, closest)
         IN  IF first.found /\ first.distance.num = 0 THEN first
             ELSE ClosestOver(data, mouseX, mid + 1, hi, first)

Inside(mouseX, mouseY) ==
    /\ mouseX >= 0 /\ mouseX <= graphWidth
    /\ mouseY >= 0 /\ mouseY <= graphHeight

\* What handleMouseMove leaves in hoveredPoint.
HoverAt(data, mouseX, mouseY) ==
    IF ~Inside(mouseX, mouseY) THEN NoHover
    ELSE LET closest == ClosestOver(data, mouseX, 1, Len(data), NoneYet)
         IN  IF closest.found /\ Less(closest.distance, Frac(HoverRadius, 1))
             THEN Hover(data, data[closest.index])
             ELSE NoHover

\* Pointer positions relative to the plot area (clientX - rect.left -
\* padding.left, clientY - rect.top - padding.top).
MouseXs == {0 - 1, 0, 350, 680, 681, 700, 701}
MouseYs == {0 - 1, 0, 320, 321}

NoMouse == [seen |-> FALSE, x |-> 0, y |-> 0]

\* graphContainer is bound while the page is mounted.
handleMouseMove(mouseX, mouseY) ==
    /\ phase = "mounted"
    /\ ~effectDirty
    /\ mouse' = [seen |-> TRUE, x |-> mouseX, y |-> mouseY]
    /\ hoveredPoint' = HoverAt(temperatureData, mouseX, mouseY)
    /\ UNCHANGED <<serverVars, temperatureData, isLoading, isAutoRefresh,
                   refreshInterval, lastFetchTime, refreshTimer, phase,
                   effectDirty, timers, inflight, lastResult, now>>

handleMouseLeave ==
    /\ phase = "mounted"
    /\ ~effectDirty
    /\ mouse' = NoMouse
    /\ hoveredPoint' = NoHover
    /\ UNCHANGED <<serverVars, temperatureData, isLoading, isAutoRefresh,
                   refreshInterval, lastFetchTime, refreshTimer, phase,
                   effectDirty, timers, inflight, lastResult, now>>

----------------------------------------------------------------------------
(* Initial states *)

\* The table as created, or after PrefillRows earlier inserts.
InitialTables == {<<>>, PrefilledTable}

\* The table as created, or after one earlier insert by a device whose
\* timestamp no Date can parse.
SeededTables ==
    {<<>>} \cup {<<Row(1, RangeHigh, ObjectBody(JNum(RangeHigh), e, FALSE))>> :
                    e \in {x \in ExtraInputs :
                            DateGetTime(Stored(x.timestamp)).nan}}

\* The table as created, with one reading, with two, or after PrefillRows
\* inserts.
GraphTables ==
    {<<>>, <<PrefillRow(1)>>, <<PrefillRow(1), PrefillRow(2)>>, PrefilledTable}

InitServer ==
    /\ seq = Len(table)
    /\ inserts = 0
    /\ req = NoRequest
    /\ resp = NoResponse

InitPage ==
    /\ temperatureData = <<>>
    /\ isLoading = TRUE
    /\ isAutoRefresh = TRUE
    /\ refreshInterval = 30
    /\ lastFetchTime = Null
    /\ refreshTimer = Null
    /\ hoveredPoint = NoHover
    /\ phase = "created"
    /\ effectDirty = FALSE
    /\ timers = {}
    /\ inflight = <<>>
    /\ lastResult = NoResult
    /\ mouse = NoMouse
    /\ now = 1

Init ==
    /\ table \in InitialTables
    /\ InitServer
    /\ InitPage

----------------------------------------------------------------------------
(* The endpoint alone *)

HandlePOST ==
    /\ \E body \in Bodies, db \in BOOLEAN :
        \E bind \in BindOutcomes(body) : POST(body, db, bind)
    /\ UNCHANGED pageVars

HandleGET ==
    /\ \E tie \in TieOrders, limit \in LimitInputs, offset \in OffsetInputs,
          location \in LocationInputs, db \in BOOLEAN :
        GET(limit, offset, location, db, tie)
    /\ UNCHANGED pageVars

NextServer == HandlePOST \/ HandleGET \/ Complete

SpecServer == Init /\ [][NextServer]_vars

----------------------------------------------------------------------------
(* The page's data layer over a table that devices write to *)

InitData ==
    /\ table \in SeededTables
    /\ InitServer
    /\ InitPage

\* Before the page is opened, a device posts a reading the endpoint
\* accepts, with a timestamp that a Date can hold or with none.
DevicePOST ==
    /\ phase = "created"
    /\ \E e \in {x \in ExtraInputs : ~DateGetTime(Stored(x.timestamp)).nan} :
        LET body == ObjectBody(JNum(RangeHigh), e, FALSE)
        IN  \E bind \in BindOutcomes(body) : POST(body, TRUE, bind)
    /\ UNCHANGED pageVars

Answer ==
    \E i \in 1..Len(inflight) : \E reply \in FetchReplies(table) :
        ServerReply(i, reply)

Resume == \E i \in 1..Len(inflight) : Resolve(i)

NextData ==
    \/ DevicePOST \/ Complete
    \/ Mount \/ Answer \/ Resume

SpecData == InitData /\ [][NextData]_vars

----------------------------------------------------------------------------
(* The graph under the pointer *)

InitGraph ==
    /\ table \in GraphTables
    /\ InitServer
    /\ InitPage

\* Every fetch is answered with the readings stored.
Deliver ==
    \E i \in 1..Len(inflight) :
        \E reply \in {r \in FetchReplies(table) : ~FetchFailed(r)} :
            ServerReply(i, reply)

\* Use Demo Data, with the middle stream of random numbers.
DemoDataMid == UseDemoData("mid")

MouseMove == \E x \in MouseXs, y \in MouseYs : handleMouseMove(x, y)

NextGraph ==
    \/ Mount \/ Deliver \/ Resume \/ DemoDataMid
    \/ MouseMove \/ handleMouseLeave

SpecGraph == InitGraph /\ [][NextGraph]_vars

----------------------------------------------------------------------------
(* The scheduler *)

\* One reading is stored.
InitScheduler ==
    /\ table = <<PrefillRow(1)>>
    /\ InitServer
    /\ InitPage

ChangeInterval == \E v \in IntervalOptions : SelectInterval(v)

Fire == \E t \in timers : TimerFire(t)

NextScheduler ==
    \/ Mount \/ Deliver \/ Resume \/ Toggle \/ ChangeInterval \/ EffectRun
    \/ Fire \/ Destroy \/ Tick

SpecScheduler == InitScheduler /\ [][NextScheduler]_vars

----------------------------------------------------------------------------
(* Refreshes that overlap, over a table that a device writes to *)

MaxLatePosts == 1

InitRefresh ==
    /\ table = <<PrefillRow(1)>>
    /\ InitServer
    /\ InitPage

\* While the page is open a device posts a reading the endpoint accepts,
\* older than the one stored, and has its answer.
LatePOST ==
    /\ phase = "mounted"
    /\ req = NoRequest
    /\ inserts < MaxLatePosts
    /\ \E e \in {x \in ExtraInputs :
                    x.device_id # "undefined" /\ x.timestamp = "t1"} :
        LET body == ObjectBody(JNum(RangeHigh), e, FALSE)
            out == PostOutcome(body, TRUE, "null", seq)
        IN  /\ out.insert
            /\ table' = Append(table, Row(seq + 1, out.temperature, body))
            /\ seq' = seq + 1
            /\ inserts' = inserts + 1
    /\ UNCHANGED <<req, resp, pageVars>>

NextRefresh ==
    \/ Mount \/ Deliver \/ Resume
    \/ Fire \/ ManualRefresh \/ LatePOST

SpecRefresh == InitRefresh /\ [][NextRefresh]_vars

----------------------------------------------------------------------------
(* Refresh Now and the checkbox *)

NextManual ==
    \/ Mount \/ Deliver \/ Resume \/ Toggle \/ EffectRun
    \/ ManualRefresh \/ Tick

SpecManual == InitScheduler /\ [][NextManual]_vars

----------------------------------------------------------------------------
(* Everything together *)

DemoData == \E rnd \in RandomStreams : UseDemoData(rnd)

Next ==
    \/ HandlePOST \/ HandleGET \/ Complete
    \/ Mount \/ Answer \/ Resume \/ Toggle \/ ChangeInterval \/ EffectRun
    \/ Fire \/ ManualRefresh \/ DemoData \/ Destroy \/ LatePOST
    \/ MouseMove \/ handleMouseLeave \/ Tick

Spec == Init /\ [][Next]_vars

----------------------------------------------------------------------------
(* What the statements below say of a request, read off the request alone *)

\* The text is an optional sign followed by digits and nothing else.
WhollyNumeric(s) ==
    LET u == IF s # <<>> /\ Head(s) \in {"-", "+"} THEN Tail(s) ELSE s
    IN  u # <<>> /\ \A i \in 1..Len(u) : u[i] \in Digits

NumericValue(s) ==
    IF Head(s) = "-" THEN 0 - DigitsValue(Tail(s), 0)
    ELSE IF Head(s) = "+" THEN DigitsValue(Tail(s), 0)
    ELSE DigitsValue(s, 0)

InRange(n) == RangeLow <= n /\ n <= RangeHigh

\* The body is a JSON object whose temperature is a number outside the range.
NumberOutOfRange(body) ==
    /\ body.shape = "object"
    /\ body.temperature.k = "number"
    /\ ~InRange(body.temperature.n)

\* The body is a JSON object (with no key named "hasOwnProperty") that has
\* no temperature, or one that is neither a number nor a wholly numeric
\* string.
NoNumericTemperature(body) ==
    /\ body.shape = "object" /\ ~body.shadow
    /\ \/ body.temperature.k \in {"absent", "null", "object", "array"}
       \/ body.temperature.k = "string" /\ ~WhollyNumeric(body.temperature.s)

\* The body is a JSON object whose temperature is a number, or a wholly
\* numeric string, in the range.
ValidTemperature(body) ==
    /\ body.shape = "object"
    /\ \/ body.temperature.k = "number" /\ InRange(body.temperature.n)
       \/ /\ body.temperature.k = "string"
          /\ WhollyNumeric(body.temperature.s)
          /\ InRange(NumericValue(body.temperature.s))

IsPost(r) == r.method = "POST"

IsDefaultGet(r) ==
    r.method = "GET" /\ ~r.limit.present /\ ~r.offset.present /\ ~r.location.present

Ids(rows) == { rows[i].id : i \in 1..Len(rows) }

\* The limit and offset a GET asks for, when both are integers (an absent
\* parameter asks for the default).
AsksIntegers(r) ==
    /\ r.method = "GET"
    /\ ~r.limit.present \/ WhollyNumeric(r.limit.s)
    /\ ~r.offset.present \/ WhollyNumeric(r.offset.s)

AskedLimit(r) == IF r.limit.present THEN NumericValue(r.limit.s) ELSE 100

AskedOffset(r) == IF r.offset.present THEN NumericValue(r.offset.s) ELSE 0

CappedLimit(r) == IF AskedLimit(r) > MaxLimit THEN MaxLimit ELSE AskedLimit(r)

ListContract(r, answer, total) ==
    /\ Len(answer.data) <= AskedLimit(r)
    /\ answer.hasMeta /\ answer.meta.limit <= MaxLimit
    /\ answer.meta.hasMore <=> (AskedOffset(r) + CappedLimit(r) < total)

----------------------------------------------------------------------------
(* Statements about the endpoint *)

\* C1: a POST whose temperature is a number outside [-50,100] is answered
\* with status 400 and ok=false, and the stored readings are unchanged,
\* whether or not the store is available.
C1_OutOfRangeIs400 ==
    [][ (IsPost(req') /\ NumberOutOfRange(req'.body))
            => (resp'.status = 400 /\ ~resp'.ok /\ table' = table /\ seq' = seq) ]_vars

\* C2: a valid POST (temperature in range, store available, with or without
\* a timestamp or device_id of the client) is assigned an id greater than
\* every id assigned before, and the next list call with the default limit
\* and offset includes the reading inserted last.
C2_InsertedThenListed ==
    [][ /\ (IsPost(req') /\ ValidTemperature(req'.body) /\ req'.db)
            => /\ resp'.ok
               /\ resp'.id > seq
               /\ \A i \in Ids(table) : resp'.id > i
               /\ resp'.id \in Ids(table')
        /\ (IsDefaultGet(req') /\ req'.db /\ inserts > 0)
            => /\ resp'.ok
               /\ seq \in Ids(resp'.data) ]_vars

\* C3 as claimed: for every GET whose limit L and offset O are integers, the
\* response holds at most L readings, the limit in meta is at most 1000 and
\* hasMore is true exactly when offset + limit < total.
C3_ListContractAnyInteger ==
    (AsksIntegers(req) /\ resp.ok) => ListContract(req, resp, Len(table))

\* C3 as amended: the same for every GET whose limit L is a non-negative
\* integer and whose offset is an integer.
C3_ListContract ==
    (AsksIntegers(req) /\ AskedLimit(req) >= 0 /\ resp.ok)
        => ListContract(req, resp, Len(table))

\* A list of two stored readings cut to one by limit=1, with more to come.
C3_Witness ==
    /\ AsksIntegers(req) /\ resp.ok
    /\ AskedLimit(req) = 1 /\ Len(table) = 2
    /\ Len(resp.data) = 1 /\ resp.meta.hasMore

----------------------------------------------------------------------------
(* Statements about the page's data layer *)

\* The step resumes the caller of fetch i, which the endpoint had answered.
Resumed(i) ==
    /\ inflight[i].stage = "replied"
    /\ inflight' = Without(inflight, i)

\* The timestamp is one of the instants.
HasInstant(ts) == ts \in {"t1", "t2", "t3"}

Instant(ts) == DateGetTime(ts).v

\* Where the reading with this id stands in the response.
PlaceIn(readings, id) == CHOOSE k \in 1..Len(readings) : readings[k].id = id

\* Every timestamp of readings is one a Date can hold, and the instants
\* among them ascend.
AlreadyAscending(readings) ==
    \A j \in 1..Len(readings), k \in 1..Len(readings) :
        /\ ~DateGetTime(readings[j].timestamp).nan
        /\ (j < k /\ HasInstant(readings[j].timestamp)
                  /\ HasInstant(readings[k].timestamp))
            => Instant(readings[j].timestamp) <= Instant(readings[k].timestamp)

\* display holds the N readings, indexed 0..N-1 in order, the instants
\* ascending and readings of one instant in the order of the response.
SortedDisplay(readings, display) ==
    /\ Len(display) = Len(readings)
    /\ {display[k].id : k \in 1..Len(display)} = Ids(readings)
    /\ \A k \in 1..Len(display) : display[k].time = k - 1
    /\ \A j \in 1..Len(display), k \in 1..Len(display) :
        (j < k /\ HasInstant(display[j].dbTimestamp)
               /\ HasInstant(display[k].dbTimestamp))
            => /\ Instant(display[j].dbTimestamp)
                    <= Instant(display[k].dbTimestamp)
               /\ display[j].dbTimestamp = display[k].dbTimestamp
                    => PlaceIn(readings, display[j].id)
                        < PlaceIn(readings, display[k].id)

\* Sorting and indexing once more the readings that gave display, when
\* they are already ascending, changes nothing.
Idempotent(readings, display) ==
    \A sorted \in SortOutcomes(readings) :
        (DisplayOf(sorted) = display /\ AlreadyAscending(sorted))
            => \A again \in SortOutcomes(sorted) : DisplayOf(again) = display

\* C4: when a fetch that the endpoint answered with ok and N readings
\* resumes, the display sequence holds those N readings with the instants
\* ascending and the indices 0..N-1 in order, readings of equal timestamp
\* keep the order of the response, and sorting and indexing an already
\* ascending result again leaves it as it is.
C4_SortedIndexedStable ==
    [][ \A i \in 1..Len(inflight) :
            (Resumed(i) /\ ~FetchFailed(inflight[i].reply))
                => /\ SortedDisplay(inflight[i].reply.body.data,
                                    temperatureData')
                   /\ Idempotent(inflight[i].reply.body.data,
                                 temperatureData') ]_vars

\* 60 points indexed 0..59 with temperatures in [20,50], in tenths.
IsFallback(display) ==
    /\ Len(display) = 60
    /\ \A k \in 1..Len(display) :
        /\ display[k].time = k - 1
        /\ 200 <= display[k].temperature /\ display[k].temperature <= 500

\* C5: when a fetch that met a transport failure, a body that is not JSON
\* or a response with ok=false resumes, its caller is handed a display
\* sequence (no error reaches it) of 60 points indexed 0..59 whose
\* temperatures all lie in [20,50].
C5_FallbackOnFailure ==
    [][ \A i \in 1..Len(inflight) :
            (Resumed(i) /\ FetchFailed(inflight[i].reply))
                => /\ lastResult'.failed
                   /\ IsFallback(temperatureData') ]_vars

\* The first fetch failed and the fallback drawn is the one whose lower
\* clamp binds.
C5_Witness ==
    /\ lastResult.origin = "mount" /\ lastResult.failed
    /\ temperatureData = generateTemperatureData("low")
    /\ temperatureData[PointCount].temperature = 200

\* C6: once a fetch has resumed, the display sequence has at least one
\* point.
C6_NeverEmptyAfterFetch ==
    lastResult.origin # "none" => temperatureData # <<>>

----------------------------------------------------------------------------
(* Statements about the graph *)

\* The step is a pointer move over the graph.
PointerMoved ==
    /\ mouse'.seen
    /\ <<mouse, hoveredPoint>>' # <<mouse, hoveredPoint>>

DistanceTo(data, k, mouseX) == Distance(xScale(data, data[k].time), mouseX)

\* Fractions compared as the statements read them.
Below(a, b) == a.num * b.den < b.num * a.den

AtMost(a, b) == a.num * b.den <= b.num * a.den

\* Point k of data is at the least horizontal distance from mouseX, and is
\* the first in sequence order of the points that are.
FirstNearest(data, k, mouseX) ==
    \A j \in 1..Len(data) :
        IF j < k
        THEN Below(DistanceTo(data, k, mouseX), DistanceTo(data, j, mouseX))
        ELSE AtMost(DistanceTo(data, k, mouseX), DistanceTo(data, j, mouseX))

Within20(data, k, mouseX) == Below(DistanceTo(data, k, mouseX), Frac(20, 1))

\* C7: after a pointer move, if the pointer is inside the graph area and
\* some point of the display sequence is at a horizontal distance below
\* 20px, the point hovered is the first in sequence order of the points at
\* the least horizontal distance from the pointer; otherwise (no point
\* within 20px, the pointer outside, or the sequence empty) no point is
\* hovered.
C7_NearestPointHovered ==
    [][ PointerMoved =>
        LET data == temperatureData
            mouseX == mouse'.x
        IN  IF /\ Inside(mouseX, mouse'.y)
               /\ \E j \in 1..Len(data) : Within20(data, j, mouseX)
            THEN /\ hoveredPoint'.shown
                 /\ \E k \in 1..Len(data) :
                    /\ hoveredPoint'.point = data[k]
                    /\ hoveredPoint'.x = xScale(data, data[k].time)
                    /\ FirstNearest(data, k, mouseX)
            ELSE ~hoveredPoint'.shown ]_vars

\* The pointer is midway between the points of index 29 and 30 of a
\* sequence of 60, and the one of index 29 is hovered.
C7_Witness ==
    /\ mouse.seen /\ mouse.x = 350 /\ Inside(mouse.x, mouse.y)
    /\ Len(temperatureData) = 60
    /\ DistanceTo(temperatureData, 30, 350) = DistanceTo(temperatureData, 31, 350)
    /\ hoveredPoint.shown /\ hoveredPoint.point = temperatureData[30]

----------------------------------------------------------------------------
(* Statements about the endpoint's errors *)

\* C8: a POST whose body is a JSON object in which the temperature is
\* absent, or is neither a number nor a wholly numeric string, is answered with status 400 and ok=false and no
\* INSERT runs; a POST with a valid temperature while the store is
\* unavailable is answered with status 500 and no INSERT runs.
C8_NonNumericIs400 ==
    [][ /\ (IsPost(req') /\ NoNumericTemperature(req'.body))
            => (resp'.status = 400 /\ ~resp'.ok /\ table' = table)
        /\ (IsPost(req') /\ ValidTemperature(req'.body) /\ ~req'.db)
            => (resp'.status = 500 /\ ~resp'.ok /\ table' = table) ]_vars

----------------------------------------------------------------------------
(* Statements about the scheduler *)

\* C9: at most one timer is armed; an armed timer is the one whose handle
\* the page keeps, the flag is set and its period is the selected interval;
\* and while the page is mounted a timer is armed exactly when the flag is
\* set.
C9_SingleTimer ==
    /\ Cardinality(timers) <= 1
    /\ \A t \in timers :
        /\ t.id = refreshTimer
        /\ isAutoRefresh
        /\ t.period = refreshInterval * 1000
    /\ phase = "mounted" => (timers # {} <=> isAutoRefresh)

\* The page is mounted, its first fetch has resumed, the interval has been
\* changed to 5 seconds and the effect has run again: one timer of 5000 ms.
C9_Witness ==
    /\ phase = "mounted" /\ ~effectDirty
    /\ lastResult.origin = "mount"
    /\ isAutoRefresh /\ refreshInterval = 5
    /\ timers = {[id |-> refreshTimer, period |-> 5000]}

\* The step starts a fetch from a timer callback.
TimerFetchStarted ==
    /\ Len(inflight') = Len(inflight) + 1
    /\ inflight'[Len(inflight')].origin = "timer"

\* C10: while the flag is clear no step starts a fetch from a timer
\* callback; and a fetch that resumes while the flag is clear still replaces
\* the display sequence with what it fetched and sets lastFetchTime to the
\* time of resuming.
C10_DisableKeepsInFlight ==
    [][ /\ ~isAutoRefresh => ~TimerFetchStarted
        /\ \A i \in 1..Len(inflight) :
            (Resumed(i) /\ ~isAutoRefresh)
                => /\ temperatureData'
                        \in fetchTemperatureData(inflight[i].reply)
                   /\ lastFetchTime' = now ]_vars

\* A fetch started by the timer resumed after the flag had been cleared,
\* at a later time than any before, and the display shows what it fetched.
C10_Witness ==
    /\ lastResult.origin = "timer" /\ ~lastResult.enabled
    /\ ~isAutoRefresh
    /\ now > 1 /\ lastFetchTime = now
    /\ temperatureData # <<>>

\* C13: once the page is destroyed no timer is armed, and no step taken
\* after that starts a fetch from a timer callback.
C13_NoTimerAfterDestroy ==
    [][ /\ phase' = "destroyed" => timers' = {}
        /\ phase = "destroyed" => ~TimerFetchStarted ]_vars

\* The step is a click on Refresh Now that started a fetch.
ManualFetchStarted ==
    /\ Len(inflight') = Len(inflight) + 1
    /\ inflight'[Len(inflight')].origin = "manual"

\* The step is a click on Refresh Now while the flag is clear: of the steps
\* that resume no fetch, a click is the one that clears isLoading or
\* enters the log.
ClickedWhileDisabled ==
    /\ ~isAutoRefresh /\ isAutoRefresh' = isAutoRefresh
    /\ \A i \in 1..Len(inflight) : ~Resumed(i)
    /\ isLoading' # isLoading \/ lastResult' # lastResult

\* C14: a click on Refresh Now while the flag is clear starts no fetch,
\* leaves the display sequence and lastFetchTime as they are and leaves
\* isLoading false; a fetch is started by Refresh Now only while the flag is
\* set, one fetch for one click, with isLoading set and the display and
\* lastFetchTime as they are until it resumes; and when that fetch resumes
\* isLoading is false.
C14_RefreshNowGated ==
    [][ /\ ClickedWhileDisabled
            => /\ inflight' = inflight
               /\ temperatureData' = temperatureData
               /\ lastFetchTime' = lastFetchTime
               /\ ~isLoading'
        /\ ManualFetchStarted
            => /\ isAutoRefresh
               /\ inflight' = Append(inflight,
                                     [origin |-> "manual", stage |-> "sent",
                                      reply |-> NoReply])
               /\ temperatureData' = temperatureData
               /\ lastFetchTime' = lastFetchTime
               /\ isLoading'
        /\ \A i \in 1..Len(inflight) :
            (Resumed(i) /\ inflight[i].origin = "manual") => ~isLoading' ]_vars

\* The first fetch has resumed and shown its reading, the flag has been
\* cleared and Refresh Now has been clicked: no fetch is in flight,
\* lastFetchTime is a time before now and isLoading is false.
C14_Witness ==
    /\ lastResult.origin = "manual" /\ ~lastResult.fetched
    /\ ~isAutoRefresh /\ ~effectDirty
    /\ inflight = <<>>
    /\ temperatureData # <<>>
    /\ lastFetchTime # Null /\ lastFetchTime < now
    /\ ~isLoading

----------------------------------------------------------------------------
(* Statements about the scales *)

\* Where the graph draws point k of data.
DrawnAt(data, k) == xScale(data, data[k].time)

IsZero(a) == a.num = 0

Equals(a, n) == a.num = n * a.den

----------------------------------------------------------------------------
(* Statements about refreshes that overlap *)

\* C11: whichever fetches are in flight together, a step that resumes one
\* of them replaces the whole display sequence with what that fetch
\* resolved with, whether or not a fetch started later has resumed before
\* it; and a step of a refresh that resumes none leaves the display
\* sequence as it is and every fetch in flight in flight. So the display
\* sequence is at any time the result of the fetch that resumed last.
C11_LastResolverWins ==
    [][ /\ \A i \in 1..Len(inflight) :
            Resumed(i)
                => temperatureData' \in fetchTemperatureData(inflight[i].reply)
        /\ (\A i \in 1..Len(inflight) : ~Resumed(i))
            => /\ temperatureData' = temperatureData
               /\ Len(inflight') >= Len(inflight)
               /\ \A k \in 1..Len(inflight) :
                    inflight'[k].origin = inflight[k].origin ]_vars

\* The first fetch, started by onMount, was answered with the one reading
\* stored then; a refresh started later was answered with two and resumed
\* first; the first fetch resumed last, replaced the two points shown and
\* the display is its one older reading while two are stored.
C11_Witness ==
    /\ lastResult.origin = "mount" /\ lastResult.fetched
    /\ lastResult.replaced = 2
    /\ Len(temperatureData) = 1
    /\ Len(table) = 2
    /\ inflight = <<>>
====
